---- MODULE Spec2Model ----
(***************************************************************************)
(* Model of the driver-advice decision engines of the repository:          *)
(*   src/src/next_locdemo.py   DemandPredictor, DecisionEngine             *)
(*   src/src/core/decision.py  DemandPredictor, DecisionEngine (core copy) *)
(*   src/src/core/fatigue.py   compute_fatigue                             *)
(*   src/src/engine.py         UberDriverAdvisor                           *)
(*                                                                         *)
(* Python floats are modelled by exact rationals <<num, den>> (den > 0,    *)
(* lowest terms).  The driver states enumerated below avoid the few inputs *)
(* on which IEEE rounding moves a fatigue value across a threshold         *)
(* (e.g. 4.0 h / 40 jobs is 0.7999999999999999 in Python, 4/5 exactly).    *)
(***************************************************************************)
EXTENDS Integers, Sequences, FiniteSets, TLC

VARIABLES
    eph_predictions,   \* DemandPredictor._eph_predictions : location -> predicted EPH
    avg_fare_by_city,  \* DecisionEngine.avg_fare_by_city  : city_id -> mean fare
    inp,               \* the arguments of the call
    pc,                \* "idle" before the call, "done" after it
    op,                \* which function ran
    res                \* what the call returned (or the exception it raised)

vars == <<eph_predictions, avg_fare_by_city, inp, pc, op, res>>

----------------------------------------------------------------------------
(* Exact rational arithmetic standing for Python float arithmetic.         *)

Abs(x) == IF x < 0 THEN -x ELSE x

RECURSIVE GCD(_, _)
GCD(a, b) == IF b = 0 THEN a ELSE GCD(b, a % b)

\* the rational n/d (d # 0) in lowest terms with a positive denominator
Q(n, d) ==
    LET s == IF d < 0 THEN -1 ELSE 1
        g == GCD(Abs(n), Abs(d))
    IN  <<(s * n) \div g, (s * d) \div g>>

I(n) == <<n, 1>>

Zero == I(0)
One == I(1)

RAdd(x, y) == Q(x[1] * y[2] + y[1] * x[2], x[2] * y[2])
RSub(x, y) == Q(x[1] * y[2] - y[1] * x[2], x[2] * y[2])
RMul(x, y) == Q(x[1] * y[1], x[2] * y[2])
\* x / y for y # 0 (the callers test for the zero divisor, as Python raises there)
RDiv(x, y) == Q(x[1] * y[2], x[2] * y[1])

RLt(x, y) == x[1] * y[2] < y[1] * x[2]
RLe(x, y) == x[1] * y[2] <= y[1] * x[2]
RGt(x, y) == RLt(y, x)
RGe(x, y) == RLe(y, x)

\* Python's min(a, b): b only when b < a
RMin(a, b) == IF RLt(b, a) THEN b ELSE a

\* round(x, k) and format(x, ".kf") for k decimals: nearest multiple of 10^-k,
\* an exact tie going to the even neighbour
Pow10(k) == IF k = 0 THEN 1 ELSE IF k = 1 THEN 10 ELSE IF k = 2 THEN 100 ELSE 1000

RoundTo(x, k) ==
    LET p == Pow10(k)
        n == x[1] * p
        d == x[2]
        fl == n \div d
        r2 == 2 * (n - fl * d)
        m == IF r2 > d THEN fl + 1
             ELSE IF r2 < d THEN fl
             ELSE IF fl % 2 = 0 THEN fl ELSE fl + 1
    IN  Q(m, p)

----------------------------------------------------------------------------
(* Configuration constants (next_locdemo.py 11-17, core/decision.py 6-10).  *)

MOVE_ADVANTANTAGE_THRESHOLD == Q(125, 100)
FUEL_TYPE_COSTS_PER_KM ==
    [gas |-> Q(35, 100), hybrid |-> Q(25, 100), EV |-> Q(15, 100), unknown |-> Q(30, 100)]
FATIGUE_HIGH_THRESHOLD == Q(6, 10)
FATIGUE_CRITICAL_THRESHOLD == Q(8, 10)
MAX_HOURS_CONTINUOUS == 5

\* dict.get(key, default)
DictGet(d, key, default) == IF key \in DOMAIN d THEN d[key] ELSE default

\* None, for an Optional argument; a dict argument that is given is a record
\* without the field "none" (the candidate dict is [items |-> <<...>>], its
\* entries in insertion order)
None == [none |-> TRUE]
IsNone(x) == "none" \in DOMAIN x

----------------------------------------------------------------------------
(* Fatigue: the three copies.                                              *)

\* faulty variant of Demo_compute_fatigue: the engine keeps a tally of its calls
\* and counts ten more jobs for each earlier one
Demo_compute_fatigue_tally(hours_online, jobs_completed) ==
    LET hour_fatigue == RMin(One, RDiv(hours_online, I(MAX_HOURS_CONTINUOUS)))
        job_fatigue == RMin(One, RDiv(I(jobs_completed + 10 * Len(op)), I(50)))
    IN  RMin(One, RAdd(RMul(hour_fatigue, Q(7, 10)), RMul(job_fatigue, Q(3, 10))))

\* faulty variant of Demo_compute_fatigue: the components are not capped at 1
Demo_compute_fatigue_uncapped(hours_online, jobs_completed) ==
    LET hour_fatigue == RDiv(hours_online, I(MAX_HOURS_CONTINUOUS))
        job_fatigue == RDiv(I(jobs_completed), I(50))
    IN  RAdd(RMul(hour_fatigue, Q(7, 10)), RMul(job_fatigue, Q(3, 10)))

\* next_locdemo.py DecisionEngine._compute_fatigue
Demo_compute_fatigue(hours_online, jobs_completed) ==
    LET hour_fatigue == RMin(One, RDiv(hours_online, I(MAX_HOURS_CONTINUOUS)))
        job_fatigue == RMin(One, RDiv(I(jobs_completed), I(50)))
    IN  RMin(One, RAdd(RMul(hour_fatigue, Q(7, 10)), RMul(job_fatigue, Q(3, 10))))

\* core/decision.py DecisionEngine._compute_fatigue
Core_compute_fatigue(hours_online, jobs_completed) ==
    LET hour_fatigue == RMin(One, RDiv(hours_online, I(MAX_HOURS_CONTINUOUS)))
        job_fatigue == RMin(One, RDiv(I(jobs_completed), I(50)))
    IN  RMin(One, RAdd(RMul(hour_fatigue, Q(7, 10)), RMul(job_fatigue, Q(3, 10))))

\* faulty variant of compute_fatigue: the local limit set to 8 hours
compute_fatigue_eight(hours_online, jobs_completed) ==
    LET max_hours_continuous == 8
        hour_fatigue == RMin(One, RDiv(hours_online, I(max_hours_continuous)))
        job_fatigue == RMin(One, RDiv(I(jobs_completed), I(50)))
    IN  RMin(One, RAdd(RMul(hour_fatigue, Q(7, 10)), RMul(job_fatigue, Q(3, 10))))

\* core/fatigue.py compute_fatigue (its own local MAX_HOURS_CONTINUOUS = 5)
compute_fatigue(hours_online, jobs_completed) ==
    LET max_hours_continuous == 5
        hour_fatigue == RMin(One, RDiv(hours_online, I(max_hours_continuous)))
        job_fatigue == RMin(One, RDiv(I(jobs_completed), I(50)))
    IN  RMin(One, RAdd(RMul(hour_fatigue, Q(7, 10)), RMul(job_fatigue, Q(3, 10))))

----------------------------------------------------------------------------
(* DemandPredictor.predict_eph: a dict over the given locations, 10.0 for   *)
(* a location the table does not hold.                                     *)

\* faulty variant of predict_eph: a location the table does not hold earns nothing
predict_eph_zero(table, locations) ==
    [loc \in locations |-> DictGet(table, loc, Zero)]

predict_eph(table, locations) ==
    [loc \in locations |-> DictGet(table, loc, I(10))]

\* faulty variant of EphAfterPredict: dict.setdefault, which stores the default
EphAfterPredict_setdefault(table, locations) ==
    [loc \in DOMAIN table \cup locations |-> DictGet(table, loc, I(10))]

\* _eph_predictions after predict_eph: dict.get stores nothing
EphAfterPredict(table, locations) == table

----------------------------------------------------------------------------
(* Helpers for the list and dict handling of get_recommendation.           *)

\* the keys of the candidate dict, as a set
Keys(cands) == {cands[i].loc : i \in 1..Len(cands)}

\* faulty variant of SortedReverse: elements with equal keys in reverse order
SortedReverse_unstable(seq, keys) ==
    LET n == Len(seq)
        before(i) == Cardinality({j \in 1..n :
                        \/ RGt(keys[j], keys[i])
                        \/ (keys[j] = keys[i] /\ j > i)})
    IN  [k \in 1..n |-> seq[CHOOSE i \in 1..n : before(i) = k - 1]]

\* faulty variant of SortedReverse: ascending by key
SortedReverse_ascending(seq, keys) ==
    LET n == Len(seq)
        before(i) == Cardinality({j \in 1..n :
                        \/ RLt(keys[j], keys[i])
                        \/ (keys[j] = keys[i] /\ j < i)})
    IN  [k \in 1..n |-> seq[CHOOSE i \in 1..n : before(i) = k - 1]]

\* sorted(seq, key=..., reverse=True), keys[i] being the key of seq[i]:
\* descending by key; elements with equal keys keep their order in seq
\* (Python's sort is stable, also with reverse)
SortedReverse(seq, keys) ==
    LET n == Len(seq)
        before(i) == Cardinality({j \in 1..n :
                        \/ RGt(keys[j], keys[i])
                        \/ (keys[j] = keys[i] /\ j < i)})
    IN  [k \in 1..n |-> seq[CHOOSE i \in 1..n : before(i) = k - 1]]

\* an improvement ratio: a float or float('inf')
Inf == [inf |-> TRUE]
Fin(x) == [inf |-> FALSE, val |-> x]
RatioGe(r, x) == r.inf \/ RGe(r.val, x)
RatioRound(r, k) == IF r.inf THEN r ELSE Fin(RoundTo(r.val, k))

----------------------------------------------------------------------------
(* next_locdemo.py DecisionEngine.get_recommendation (lines 76-165).        *)
(* The returned narrative string is kept as a record: which of the six     *)
(* return statements produced it, and the values formatted into it.        *)

\* faulty variant of IsCriticalFatigue: the bar set at 0.9
IsCriticalFatigue_high(fatigue_level) == RGe(fatigue_level, Q(9, 10))

\* line 96: the critical-fatigue override
IsCriticalFatigue(fatigue_level) == RGe(fatigue_level, FATIGUE_CRITICAL_THRESHOLD)

\* faulty variant of DrivenTooLong: the 10-hour limit of the other advisor
DrivenTooLong_ten(hours_online) == RGt(hours_online, I(10))

\* line 98: the driven-too-long override
DrivenTooLong(hours_online) == RGt(hours_online, I(MAX_HOURS_CONTINUOUS))

\* faulty variant of CandidatesOrCurrent: no candidates stay no candidates
CandidatesOrCurrent_empty(candidate_locations, current_location) ==
    IF IsNone(candidate_locations) THEN <<>> ELSE candidate_locations.items

\* line 102-103: no candidates (None or {}) become the current location alone
CandidatesOrCurrent(candidate_locations, current_location) ==
    IF IsNone(candidate_locations) \/ candidate_locations.items = <<>>
    THEN <<[loc |-> current_location, distance_km |-> 0, travel_time_mins |-> 0]>>
    ELSE candidate_locations.items

\* faulty variant of Reachable: the loop ends (break for continue) at the first
\* candidate out of reach
Reachable_break(cands, time_remaining_in_shift_mins) ==
    LET out == {i \in 1..Len(cands) :
                    cands[i].travel_time_mins >= time_remaining_in_shift_mins}
        stop == IF out = {} THEN Len(cands) + 1
                ELSE CHOOSE i \in out : \A j \in out : i <= j
    IN  SubSeq(cands, 1, stop - 1)

\* faulty variant of Reachable: a trip that takes exactly the remaining time is kept
Reachable_strict(cands, time_remaining_in_shift_mins) ==
    SelectSeq(cands, LAMBDA c : ~(c.travel_time_mins > time_remaining_in_shift_mins))

\* faulty variant of Reachable: a candidate with no travel time is never skipped
Reachable_keep_zero(cands, time_remaining_in_shift_mins) ==
    SelectSeq(cands, LAMBDA c : \/ c.travel_time_mins = 0
                                \/ ~(c.travel_time_mins >= time_remaining_in_shift_mins))

\* faulty variant of Reachable: nothing is skipped once no shift time is left
Reachable_when_time_left(cands, time_remaining_in_shift_mins) ==
    SelectSeq(cands, LAMBDA c : ~(/\ time_remaining_in_shift_mins > 0
                                  /\ c.travel_time_mins >= time_remaining_in_shift_mins))

\* line 113: the candidates the loop does not skip
Reachable(cands, time_remaining_in_shift_mins) ==
    SelectSeq(cands, LAMBDA c : ~(c.travel_time_mins >= time_remaining_in_shift_mins))

\* faulty variant of MakeOption: the travel cost charged without the test for
\* a positive travel time
MakeOption_always_cost(c, fuel_type, predicted_eph) ==
    LET travel_time_mins == c.travel_time_mins
        dist_km == c.distance_km
        vehicle_cost_per_km == DictGet(FUEL_TYPE_COSTS_PER_KM, fuel_type, Q(30, 100))
        raw_eph == DictGet(predicted_eph, c.loc, I(10))
        time_efficiency_multiplier == Q(60, 60 + travel_time_mins)
        travel_cost_hourly ==
            RMul(RMul(I(dist_km), vehicle_cost_per_km), Q(60, travel_time_mins + 1))
        effective_eph == RSub(RMul(raw_eph, time_efficiency_multiplier), travel_cost_hourly)
    IN  [location |-> c.loc, distance_km |-> dist_km, travel_time_mins |-> travel_time_mins,
         raw_eph |-> raw_eph, effective_eph |-> effective_eph]

\* lines 116-122: one option of the loop (60 + travel_time_mins # 0)
MakeOption(c, fuel_type, predicted_eph) ==
    LET travel_time_mins == c.travel_time_mins
        dist_km == c.distance_km
        vehicle_cost_per_km == DictGet(FUEL_TYPE_COSTS_PER_KM, fuel_type, Q(30, 100))
        raw_eph == DictGet(predicted_eph, c.loc, I(10))
        time_efficiency_multiplier == Q(60, 60 + travel_time_mins)
        travel_cost_hourly ==
            IF travel_time_mins > 0
            THEN RMul(RMul(I(dist_km), vehicle_cost_per_km), Q(60, travel_time_mins + 1))
            ELSE Zero
        effective_eph == RSub(RMul(raw_eph, time_efficiency_multiplier), travel_cost_hourly)
    IN  [location |-> c.loc, distance_km |-> dist_km, travel_time_mins |-> travel_time_mins,
         raw_eph |-> raw_eph, effective_eph |-> effective_eph]

\* lines 134-142: the quest bonus applies to this option
QuestApplies(option, active_quest, avg_fare) ==
    /\ ~IsNone(active_quest)
    /\ active_quest.target - active_quest.progress > 0
    /\ active_quest.deadline_hours > 0
    /\ LET trips_needed == active_quest.target - active_quest.progress
           required_rate == Q(trips_needed, active_quest.deadline_hours)
           estimated_trip_rate ==
               IF RGt(avg_fare, Zero) THEN RDiv(option.raw_eph, avg_fare) ELSE Zero
       IN  RGe(estimated_trip_rate, required_rate)

\* faulty variant of FinalScore: the fatigue penalty applied at every fatigue level
FinalScore_always_penalised(option, fatigue_level, active_quest, avg_fare) ==
    LET score0 == option.effective_eph
        score1 == RSub(score0, RMul(RMul(I(option.travel_time_mins), Q(1, 10)),
                                    RSub(fatigue_level, FATIGUE_HIGH_THRESHOLD)))
    IN  IF QuestApplies(option, active_quest, avg_fare)
        THEN RAdd(score1, Q(active_quest.reward, active_quest.target))
        ELSE score1

\* faulty variant of FinalScore: the reward shared over the trips still needed
FinalScore_per_trip_needed(option, fatigue_level, active_quest, avg_fare) ==
    LET score0 == option.effective_eph
        score1 ==
            IF RGt(fatigue_level, FATIGUE_HIGH_THRESHOLD)
            THEN RSub(score0, RMul(RMul(I(option.travel_time_mins), Q(1, 10)),
                                   RSub(fatigue_level, FATIGUE_HIGH_THRESHOLD)))
            ELSE score0
    IN  IF QuestApplies(option, active_quest, avg_fare)
        THEN RAdd(score1, Q(active_quest.reward,
                            active_quest.target - active_quest.progress))
        ELSE score1

\* faulty variant of FinalScore: the penalty weighs travel time by 0.5
FinalScore_heavy_penalty(option, fatigue_level, active_quest, avg_fare) ==
    LET score0 == option.effective_eph
        score1 ==
            IF RGt(fatigue_level, FATIGUE_HIGH_THRESHOLD)
            THEN RSub(score0, RMul(RMul(I(option.travel_time_mins), Q(5, 10)),
                                   RSub(fatigue_level, FATIGUE_HIGH_THRESHOLD)))
            ELSE score0
    IN  IF QuestApplies(option, active_quest, avg_fare)
        THEN RAdd(score1, Q(active_quest.reward, active_quest.target))
        ELSE score1

\* faulty variant of FinalScore: the penalty measured down from the 0.8 threshold
FinalScore_rested_penalty(option, fatigue_level, active_quest, avg_fare) ==
    LET score0 == option.effective_eph
        score1 ==
            IF RGt(fatigue_level, FATIGUE_HIGH_THRESHOLD)
            THEN RSub(score0, RMul(RMul(I(option.travel_time_mins), Q(1, 10)),
                                   RSub(FATIGUE_CRITICAL_THRESHOLD, fatigue_level)))
            ELSE score0
    IN  IF QuestApplies(option, active_quest, avg_fare)
        THEN RAdd(score1, Q(active_quest.reward, active_quest.target))
        ELSE score1

\* faulty variant of FinalScore: the bonus scaled by the estimated trip rate
FinalScore_bonus_times_rate(option, fatigue_level, active_quest, avg_fare) ==
    LET score0 == option.effective_eph
        score1 ==
            IF RGt(fatigue_level, FATIGUE_HIGH_THRESHOLD)
            THEN RSub(score0, RMul(RMul(I(option.travel_time_mins), Q(1, 10)),
                                   RSub(fatigue_level, FATIGUE_HIGH_THRESHOLD)))
            ELSE score0
    IN  IF QuestApplies(option, active_quest, avg_fare)
        THEN RAdd(score1, RMul(Q(active_quest.reward, active_quest.target),
                               RDiv(option.raw_eph, avg_fare)))
        ELSE score1

\* lines 129-146: the final score of one option (target # 0 when the bonus applies)
FinalScore(option, fatigue_level, active_quest, avg_fare) ==
    LET score0 == option.effective_eph
        score1 ==
            IF RGt(fatigue_level, FATIGUE_HIGH_THRESHOLD)
            THEN RSub(score0, RMul(RMul(I(option.travel_time_mins), Q(1, 10)),
                                   RSub(fatigue_level, FATIGUE_HIGH_THRESHOLD)))
            ELSE score0
    IN  IF QuestApplies(option, active_quest, avg_fare)
        THEN RAdd(score1, Q(active_quest.reward, active_quest.target))
        ELSE score1

\* faulty variant of CurrentOption: the best option whatever the location
CurrentOption_always_best(ranked_options, current_location, best_option) == best_option

\* faulty variant of CurrentOption: the last option when the location is absent
CurrentOption_fallback_last(ranked_options, current_location, best_option) ==
    IF \E i \in 1..Len(ranked_options) : ranked_options[i].location = current_location
    THEN ranked_options[CHOOSE i \in 1..Len(ranked_options) :
            /\ ranked_options[i].location = current_location
            /\ \A j \in 1..(i - 1) : ranked_options[j].location # current_location]
    ELSE ranked_options[Len(ranked_options)]

\* line 152: next((opt for opt in ranked if opt.location == current), best)
CurrentOption(ranked_options, current_location, best_option) ==
    IF \E i \in 1..Len(ranked_options) : ranked_options[i].location = current_location
    THEN ranked_options[CHOOSE i \in 1..Len(ranked_options) :
            /\ ranked_options[i].location = current_location
            /\ \A j \in 1..(i - 1) : ranked_options[j].location # current_location]
    ELSE best_option

\* faulty variant of ImprovementRatio: no improvement over a non-positive score
ImprovementRatio_zero(best_option, current_option) ==
    IF RGt(current_option.final_score, Zero)
    THEN Fin(RDiv(best_option.final_score, current_option.final_score))
    ELSE Fin(Zero)

\* line 158
ImprovementRatio(best_option, current_option) ==
    IF RGt(current_option.final_score, Zero)
    THEN Fin(RDiv(best_option.final_score, current_option.final_score))
    ELSE Inf

\* faulty variant of BestIsCurrent: the test left out
BestIsCurrent_never(best_option, current_location) == FALSE

\* line 155
BestIsCurrent(best_option, current_location) == best_option.location = current_location

\* line 161
WorthMoving(improvement_ratio) == RatioGe(improvement_ratio, MOVE_ADVANTANTAGE_THRESHOLD)

\* faulty variant of MoveNarrative: the increase taken from effective_eph
MoveNarrative_effective(best_option, current_option) ==
    LET increase == RSub(best_option.effective_eph, current_option.effective_eph)
    IN  [kind |-> "move", to |-> best_option.location,
         mins |-> RoundTo(I(best_option.travel_time_mins), 0),
         increase |-> RoundTo(increase, 2)]

\* lines 162-163: the values formatted into the move narrative
MoveNarrative(best_option, current_option) ==
    LET increase == RSub(best_option.final_score, current_option.final_score)
    IN  [kind |-> "move", to |-> best_option.location,
         mins |-> RoundTo(I(best_option.travel_time_mins), 0),
         increase |-> RoundTo(increase, 2)]

Raise(exc) == [raised |-> TRUE, exc |-> exc]
Return(narrative, details) == [raised |-> FALSE, narrative |-> narrative, details |-> details]

get_recommendation(table, fares, a) ==
    LET fatigue_level == Demo_compute_fatigue(a.hours_online, a.jobs_completed)
        details0 == [fatigue_level |-> RoundTo(fatigue_level, 2),
                     hours_online |-> a.hours_online,
                     time_remaining_mins |-> a.time_remaining_in_shift_mins,
                     active_quest |-> a.active_quest]
        cands == CandidatesOrCurrent(a.candidate_locations, a.current_location)
        predicted_eph == predict_eph(table, Keys(cands))
        details1 == [k \in DOMAIN details0 \cup {"predicted_eph"} |->
                        IF k = "predicted_eph" THEN predicted_eph ELSE details0[k]]
        kept == Reachable(cands, a.time_remaining_in_shift_mins)
        options == [i \in 1..Len(kept) |-> MakeOption(kept[i], a.fuel_type, predicted_eph)]
        avg_fare == DictGet(fares, a.city_id, I(15))
        scored == [i \in 1..Len(options) |->
                    [k \in DOMAIN options[i] \cup {"final_score"} |->
                        IF k = "final_score"
                        THEN FinalScore(options[i], fatigue_level, a.active_quest, avg_fare)
                        ELSE options[i][k]]]
        ranked_options ==
            SortedReverse(scored, [i \in 1..Len(scored) |-> scored[i].final_score])
        details2 == [k \in DOMAIN details1 \cup {"ranked_options"} |->
                        IF k = "ranked_options" THEN ranked_options ELSE details1[k]]
        best_option == ranked_options[1]
        current_option == CurrentOption(ranked_options, a.current_location, best_option)
        improvement_ratio == ImprovementRatio(best_option, current_option)
        details3 == [k \in DOMAIN details2 \cup {"improvement_ratio"} |->
                        IF k = "improvement_ratio" THEN RatioRound(improvement_ratio, 2)
                        ELSE details2[k]]
    IN  IF IsCriticalFatigue(fatigue_level)
        THEN Return([kind |-> "critical_fatigue"], details0)
        ELSE IF DrivenTooLong(a.hours_online)
        THEN Return([kind |-> "driven_too_long", hours |-> RoundTo(a.hours_online, 1)], details0)
        ELSE IF \E i \in 1..Len(kept) : 60 + kept[i].travel_time_mins = 0
        THEN Raise("ZeroDivisionError")
        ELSE IF options = <<>>
        THEN Return([kind |-> "no_viable"], details1)
        ELSE IF \E i \in 1..Len(options) :
                    /\ QuestApplies(options[i], a.active_quest, avg_fare)
                    /\ a.active_quest.target = 0
        THEN Raise("ZeroDivisionError")
        ELSE IF BestIsCurrent(best_option, a.current_location)
        THEN Return([kind |-> "stay_best", at |-> a.current_location], details2)
        ELSE IF WorthMoving(improvement_ratio)
        THEN Return(MoveNarrative(best_option, current_option), details3)
        ELSE Return([kind |-> "stay_not_significant", at |-> a.current_location,
                     other |-> best_option.location], details3)

----------------------------------------------------------------------------
(* core/decision.py DecisionEngine.get_recommendation (lines 29-106).       *)
(* surge is None when no surge table or hour is passed or the hour is not  *)
(* in the table's index, else [row |-> r] with r the table's row of that   *)
(* hour (column -> multiplier).                                            *)

\* line 52
CoreIsCriticalFatigue(fatigue_level) == RGe(fatigue_level, FATIGUE_CRITICAL_THRESHOLD)

\* line 54
CoreDrivenTooLong(hours_online) == RGt(hours_online, I(MAX_HOURS_CONTINUOUS))

\* lines 57-58
CoreCandidatesOrCurrent(candidate_locations, current_location) ==
    IF IsNone(candidate_locations) \/ candidate_locations.items = <<>>
    THEN <<[loc |-> current_location, distance_km |-> 0, travel_time_mins |-> 0]>>
    ELSE candidate_locations.items

\* line 68
CoreReachable(cands, time_remaining_in_shift_mins) ==
    SelectSeq(cands, LAMBDA c : ~(c.travel_time_mins >= time_remaining_in_shift_mins))

\* lines 76-83
SurgeMultiplier(surge, loc) ==
    IF IsNone(surge) THEN One ELSE DictGet(surge.row, loc, One)

\* lines 71-94: one option of the loop (60 + travel_time_mins # 0)
CoreMakeOption(c, fuel_type, predicted_eph, surge) ==
    LET travel_time_mins == c.travel_time_mins
        dist_km == c.distance_km
        vehicle_cost_per_km == DictGet(FUEL_TYPE_COSTS_PER_KM, fuel_type, Q(30, 100))
        raw_eph == DictGet(predicted_eph, c.loc, I(10))
        time_efficiency_multiplier == Q(60, 60 + travel_time_mins)
        travel_cost_hourly ==
            IF travel_time_mins > 0
            THEN RMul(RMul(I(dist_km), vehicle_cost_per_km), Q(60, travel_time_mins + 1))
            ELSE Zero
        surge_multiplier == SurgeMultiplier(surge, c.loc)
        effective_eph ==
            RSub(RMul(RMul(raw_eph, time_efficiency_multiplier), surge_multiplier),
                 travel_cost_hourly)
    IN  [location |-> c.loc, distance_km |-> dist_km, travel_time_mins |-> travel_time_mins,
         raw_eph |-> raw_eph, effective_eph |-> effective_eph,
         surge_multiplier |-> surge_multiplier]

core_get_recommendation(table, a, surge) ==
    LET fatigue_level == Core_compute_fatigue(a.hours_online, a.jobs_completed)
        details0 == [fatigue_level |-> RoundTo(fatigue_level, 2),
                     hours_online |-> a.hours_online,
                     time_remaining_mins |-> a.time_remaining_in_shift_mins,
                     active_quest |-> a.active_quest]
        cands == CoreCandidatesOrCurrent(a.candidate_locations, a.current_location)
        predicted_eph == predict_eph(table, Keys(cands))
        details1 == [k \in DOMAIN details0 \cup {"predicted_eph"} |->
                        IF k = "predicted_eph" THEN predicted_eph ELSE details0[k]]
        kept == CoreReachable(cands, a.time_remaining_in_shift_mins)
        options ==
            [i \in 1..Len(kept) |-> CoreMakeOption(kept[i], a.fuel_type, predicted_eph, surge)]
        ranked_options ==
            SortedReverse(options, [i \in 1..Len(options) |-> options[i].effective_eph])
        details2 == [k \in DOMAIN details1 \cup {"ranked_options"} |->
                        IF k = "ranked_options" THEN ranked_options ELSE details1[k]]
        best_option == ranked_options[1]
    IN  IF CoreIsCriticalFatigue(fatigue_level)
        THEN Return([kind |-> "critical_fatigue"], details0)
        ELSE IF CoreDrivenTooLong(a.hours_online)
        THEN Return([kind |-> "driven_too_long", hours |-> RoundTo(a.hours_online, 1)], details0)
        ELSE IF \E i \in 1..Len(kept) : 60 + kept[i].travel_time_mins = 0
        THEN Raise("ZeroDivisionError")
        ELSE IF options = <<>>
        THEN Return([kind |-> "no_viable"], details1)
        ELSE IF /\ best_option.location # a.current_location
                /\ RGt(RSub(best_option.effective_eph,
                            DictGet(predicted_eph, a.current_location, Zero)),
                       MOVE_ADVANTANTAGE_THRESHOLD)
        THEN Return([kind |-> "core_move", to |-> best_option.location], details2)
        ELSE Return([kind |-> "core_stay"], details2)

----------------------------------------------------------------------------
(* engine.py UberDriverAdvisor.  A DataFrame is the sequence of its rows,   *)
(* a timestamp is [day, hour], and a hexagon's pickup coordinates are its  *)
(* position in km along one road, so that haversine_distance is the        *)
(* difference of two positions.  The returned dict is a record; its        *)
(* domain is the set of keys present.                                      *)

ADV_FATIGUE_CRITICAL_THRESHOLD == Q(8, 10)
MAX_HOURS_BEFORE_BREAK == 10
MIN_MOVE_ADVANTAGE == Q(125, 100)
MAX_TRAVEL_DISTANCE_KM == 15
AVG_CITY_SPEED_KMH == 30
WORK_DURATION_HOURS == 1

\* dict.update: the entries of e added to (or replacing those of) d
Update(d, e) ==
    [k \in DOMAIN d \cup DOMAIN e |-> IF k \in DOMAIN e THEN e[k] ELSE d[k]]

\* lines 49-58
Advisor_compute_fatigue(total_hours_driven, recent_jobs) ==
    LET hour_fatigue ==
            IF RLe(total_hours_driven, I(8))
            THEN RDiv(total_hours_driven, I(16))
            ELSE RAdd(Q(1, 2), RDiv(RSub(total_hours_driven, I(8)), I(8)))
        job_fatigue == RMin(Q(1, 2), Q(recent_jobs, 30))
        total_fatigue == RMin(One, RAdd(hour_fatigue, job_fatigue))
    IN  RoundTo(total_fatigue, 3)

\* pickup_lat, pickup_lon of a hexagon
HexPos(hex) ==
    CASE hex = "H0" -> 0
      [] hex = "H1" -> 5
      [] hex = "H2" -> 10
      [] OTHER -> 40

\* lines 39-47
haversine_distance(pos1, pos2) == I(Abs(pos2 - pos1))

\* lines 31-37: the hexagons some ride or order was picked up in
hex_coords(ride_trips, eats_orders) ==
    {ride_trips[i].pickup_hex_id9 : i \in 1..Len(ride_trips)} \cup
    {eats_orders[i].pickup_hex_id9 : i \in 1..Len(eats_orders)}

Stamp(t) == 24 * t.day + t.hour

\* faulty variant of TodaysRows: the rows of the whole day, later ones included
TodaysRows_whole_day(frame, id_column, driver_id, current_time) ==
    SelectSeq(frame, LAMBDA r : /\ r[id_column] = driver_id
                                /\ r.start_time.day = current_time.day)

\* lines 66-76: the rows of the driver that start on the date of
\* current_time and not after it
TodaysRows(frame, id_column, driver_id, current_time) ==
    SelectSeq(frame, LAMBDA r : /\ r[id_column] = driver_id
                                /\ r.start_time.day = current_time.day
                                /\ Stamp(r.start_time) <= Stamp(current_time))

RECURSIVE SumDuration(_)
SumDuration(rows) ==
    IF rows = <<>> THEN 0 ELSE Head(rows).duration_mins + SumDuration(Tail(rows))

\* sort_values('start_time').iloc[-1]
LastByStart(rows) ==
    rows[CHOOSE i \in 1..Len(rows) :
            \A j \in 1..Len(rows) : Stamp(rows[j].start_time) <= Stamp(rows[i].start_time)]

\* lines 60-110
get_driver_status(a) ==
    LET rides == TodaysRows(a.ride_trips, "driver_id", a.driver_id, a.current_time)
        eats == TodaysRows(a.eats_orders, "courier_id", a.driver_id, a.current_time)
        total_hours == RAdd(Q(SumDuration(rides), 60), Q(SumDuration(eats), 60))
        total_jobs == Len(rides) + Len(eats)
        last == IF rides # <<>> THEN LastByStart(rides) ELSE LastByStart(eats)
    IN  IF rides = <<>> /\ eats = <<>>
        THEN [error |-> [kind |-> "no_activity", driver_id |-> a.driver_id,
                         date |-> a.current_time.day, time |-> a.current_time]]
        ELSE [driver_id |-> a.driver_id,
              current_time |-> a.current_time,
              current_hex |-> last.pickup_hex_id9,
              current_pos |-> HexPos(last.pickup_hex_id9),
              city_id |-> last.city_id,
              total_hours |-> total_hours,
              total_jobs |-> total_jobs,
              fatigue |-> Advisor_compute_fatigue(total_hours, total_jobs)]

\* Series.median() of a non-empty column
Median(vals) ==
    LET sorted == SortedReverse(vals, vals)
        n == Len(vals)
    IN  IF n % 2 = 1 THEN sorted[(n + 1) \div 2]
        ELSE RDiv(RAdd(sorted[n \div 2], sorted[n \div 2 + 1]), I(2))

\* lines 112-169; the hotspots are returned best first (no two hotspots of
\* the heatmaps below have the same effective_eph)
find_hotspots(a, city_id, current_hour, current_pos) ==
    LET city_heatmap == SelectSeq(a.heatmap, LAMBDA r : r.city_id = city_id)
        surge_data == SelectSeq(a.surge_by_hour,
                                LAMBDA r : r.city_id = city_id /\ r.hour = current_hour)
        surge_multiplier == IF surge_data = <<>> THEN One ELSE surge_data[1].surge_multiplier
        median_eph == Median([i \in 1..Len(city_heatmap) |-> city_heatmap[i].predicted_eph])
        coords == hex_coords(a.ride_trips, a.eats_orders)
        promising == SelectSeq(city_heatmap,
                        LAMBDA r : /\ RGt(RMul(r.predicted_eph, surge_multiplier), median_eph)
                                   /\ r.hexagon_id_9 \in coords)
        dist(r) == haversine_distance(current_pos, HexPos(r.hexagon_id_9))
        near == SelectSeq(promising,
                    LAMBDA r : /\ RGt(dist(r), Q(1, 2))
                               /\ RLe(dist(r), I(MAX_TRAVEL_DISTANCE_KM)))
        work_minutes == WORK_DURATION_HOURS * 60
        hotspots ==
            [i \in 1..Len(near) |->
                LET travel_time_mins == RMul(RDiv(dist(near[i]), I(AVG_CITY_SPEED_KMH)), I(60))
                    roundtrip_time_mins == RMul(travel_time_mins, I(2))
                IN  [hexagon_id_9 |-> near[i].hexagon_id_9,
                     predicted_eph |-> near[i].predicted_eph,
                     distance_km |-> dist(near[i]),
                     travel_time_mins |-> travel_time_mins,
                     effective_eph |->
                        RMul(RDiv(RMul(near[i].predicted_eph, I(work_minutes)),
                                  RAdd(I(work_minutes), roundtrip_time_mins)),
                             surge_multiplier),
                     surge_multiplier |-> surge_multiplier]]
    IN  IF city_heatmap = <<>> THEN <<>>
        ELSE SortedReverse(hotspots, [i \in 1..Len(hotspots) |-> hotspots[i].effective_eph])

\* one rounding step of a double near 1.25 (2^-52), written as a step that is
\* still below every precision the ratio is reported in
Ulp == Q(1, 10000)

\* the scaled values x * m, y * m whose quotient, computed in doubles,
\* falls one step below x / y: (15.0 * 0.7116) / (12.0 * 0.7116) evaluates
\* to 1.2499999999999998, while 15.0 / 12.0 is 1.25
RoundedBelow == { <<I(15), I(12), Q(7116, 10000)>> }

\* line 233: best_effective_eph / current_effective_eph, both being
\* products by fatigue_multiplier (lines 206 and 224) rounded to doubles
FloatQuotient(best_effective_eph, current_effective_eph, fatigue_multiplier) ==
    LET exact == RDiv(best_effective_eph, current_effective_eph)
    IN  IF \E t \in RoundedBelow :
                /\ t[3] = fatigue_multiplier
                /\ best_effective_eph = RMul(t[1], fatigue_multiplier)
                /\ current_effective_eph = RMul(t[2], fatigue_multiplier)
        THEN RSub(exact, Ulp)
        ELSE exact

\* lines 171-255
recommend_action(a) ==
    LET status == get_driver_status(a)
        current_eph_data ==
            SelectSeq(a.heatmap, LAMBDA r : /\ r.city_id = status.city_id
                                            /\ r.hexagon_id_9 = status.current_hex)
        current_eph ==
            IF current_eph_data = <<>> THEN I(20) ELSE current_eph_data[1].predicted_eph
        fatigue_multiplier == RSub(One, RMul(status.fatigue, Q(7, 10)))
        current_effective_eph == RMul(current_eph, fatigue_multiplier)
        status1 == Update(status, [current_eph |-> RoundTo(current_eph, 2),
                                   current_effective_eph |-> RoundTo(current_effective_eph, 2)])
        hotspots == find_hotspots(a, status.city_id, a.current_time.hour, status.current_pos)
        best == hotspots[1]
        best_effective_eph == RMul(best.effective_eph, fatigue_multiplier)
        status2 == Update(status1, [best_hex |-> best.hexagon_id_9,
                                    best_eph |-> RoundTo(best.predicted_eph, 2),
                                    best_effective_eph |-> RoundTo(best_effective_eph, 2),
                                    best_distance_km |-> RoundTo(best.distance_km, 2),
                                    best_travel_time_mins |-> RoundTo(best.travel_time_mins, 1)])
        improvement_ratio ==
            IF RGt(current_effective_eph, Zero)
            THEN Fin(FloatQuotient(best_effective_eph, current_effective_eph,
                                   fatigue_multiplier))
            ELSE Inf
        status3 == Update(status2, [improvement_ratio |-> RatioRound(improvement_ratio, 2)])
    IN  IF "error" \in DOMAIN status
        THEN status
        ELSE IF RGe(status.fatigue, ADV_FATIGUE_CRITICAL_THRESHOLD)
        THEN Update(status, [recommendation |-> [kind |-> "break_fatigue"],
                             action |-> "break"])
        ELSE IF RGe(status.total_hours, I(MAX_HOURS_BEFORE_BREAK))
        THEN Update(status, [recommendation |-> [kind |-> "break_hours",
                                                 hours |-> RoundTo(status.total_hours, 1)],
                             action |-> "break"])
        ELSE IF hotspots = <<>>
        THEN Update(status1, [recommendation |-> [kind |-> "stay_no_hotspots"],
                              action |-> "stay",
                              reason |-> "no_hotspots"])
        ELSE IF RatioGe(improvement_ratio, MIN_MOVE_ADVANTAGE)
        THEN Update(status3,
                    [recommendation |->
                        [kind |-> "move", to |-> status2.best_hex,
                         increase |-> RoundTo(RSub(best_effective_eph,
                                                   current_effective_eph), 2),
                         km |-> status2.best_distance_km,
                         mins |-> RoundTo(status2.best_travel_time_mins, 0)],
                     action |-> "move"])
        ELSE Update(status3,
                    [recommendation |->
                        [kind |-> "stay_insufficient",
                         percent |-> RoundTo(RMul(RSub(improvement_ratio.val, One),
                                                  I(100)), 0),
                         need |-> RoundTo(RMul(RSub(MIN_MOVE_ADVANTAGE, One), I(100)), 0)],
                     action |-> "stay",
                     reason |-> "insufficient_improvement"])

----------------------------------------------------------------------------
(* Reading a result: the recommended action is what the narrative says.    *)

ActionOf(narrative) ==
    CASE narrative.kind \in {"critical_fatigue", "driven_too_long"} -> "break"
      [] narrative.kind \in {"move", "core_move"} -> "move"
      [] narrative.kind \in {"no_viable", "stay_best", "stay_not_significant", "core_stay"}
            -> "stay"
      [] OTHER -> "none"

----------------------------------------------------------------------------
(* The inputs the calls are checked on.                                    *)

MaxCands == 2          \* at most this many entries in candidate_locations
MaxHoursTenths == 60   \* fatigue grid: hours_online 0.0 .. 6.0 in steps of 0.1
MaxJobs == 55          \* fatigue grid: jobs_completed 0 .. 55

Locations == {"A", "B", "C"}

\* the demand tables an engine may be built with; none predicts "C"
EphTables ==
    { [l \in {"A", "B"} |-> I(IF l = "A" THEN 10 ELSE b)] : b \in {11, 13} }

\* the fare table built from the trips: city 1 only
FareTable == [c \in {1} |-> I(20)]

\* the <<distance_km, travel_time_mins>> a candidate entry for location l may
\* carry; <<1, -60>> is malformed, <<3, 0>> is a distance covered in no time
TravelsOf(l) ==
    CASE l = "A" -> {<<0, 0>>, <<5, 15>>, <<20, 4>>}
      [] l = "B" -> {<<0, 0>>, <<5, 15>>, <<20, 4>>, <<1, -60>>}
      [] OTHER -> {<<3, 0>>, <<20, 4>>}

TimesRemaining == {0, 15, 90}

\* <<hours_online in tenths of an hour, jobs_completed>>
DriverStates == {<<20, 5>>, <<45, 10>>, <<50, 15>>, <<40, 45>>, <<55, 10>>, <<55, 40>>}

Quest1 == [target |-> 10, progress |-> 4, deadline_hours |-> 10, reward |-> 20]
QuestDone == [target |-> 10, progress |-> 10, deadline_hours |-> 10, reward |-> 20]
QuestBad == [target |-> 0, progress |-> -1, deadline_hours |-> 48, reward |-> 20]
QuestLate == [target |-> 10, progress |-> 4, deadline_hours |-> 0, reward |-> 20]

\* <<fuel_type, city_id, active_quest>>; city 9 and fuel "diesel" are unknown
Contexts ==
    { <<"EV", 1, None>>, <<"diesel", 1, QuestLate>>, <<"EV", 1, Quest1>>, <<"diesel", 9, Quest1>>,
      <<"EV", 1, QuestDone>>, <<"EV", 9, QuestBad>> }

\* the surge rows a caller of the core engine may pass
Surges == {None, [row |-> [l \in {"B"} |-> I(2)]]}

\* the candidate dicts with n entries: distinct keys, in insertion order
RECURSIVE CandSeqs(_)
CandSeqs(n) ==
    IF n = 0 THEN {<<>>}
    ELSE UNION { { Append(s, [loc |-> l, distance_km |-> t[1], travel_time_mins |-> t[2]]) :
                     s \in CandSeqs(n - 1), t \in TravelsOf(l) } : l \in Locations }

DistinctKeys(s) == \A i, j \in 1..Len(s) : i # j => s[i].loc # s[j].loc

CandidateDicts ==
    {None} \cup
    { [items |-> s] : s \in {x \in UNION {CandSeqs(n) : n \in 0..MaxCands} : DistinctKeys(x)} }

Inputs ==
    { [current_location |-> "A", city_id |-> c[2], fuel_type |-> c[1],
       hours_online |-> Q(d[1], 10), jobs_completed |-> d[2],
       time_remaining_in_shift_mins |-> tr,
       candidate_locations |-> cl, active_quest |-> c[3], surge |-> None] :
        c \in Contexts, d \in DriverStates, tr \in TimesRemaining, cl \in CandidateDicts }

FatigueInputs ==
    { [hours_online |-> Q(h, 10), jobs_completed |-> j] :
        h \in 0..MaxHoursTenths, j \in 0..MaxJobs }

NoResult == [raised |-> FALSE, narrative |-> [kind |-> "none"]]

----------------------------------------------------------------------------
(* The engine and one call on it.                                          *)

Init ==
    /\ eph_predictions \in EphTables
    /\ avg_fare_by_city = FareTable
    /\ inp \in Inputs
    /\ pc = "idle"
    /\ op = "none"
    /\ res = NoResult

\* a call of next_locdemo.DecisionEngine.get_recommendation
GetRecommendation ==
    /\ pc = "idle"
    /\ res' = get_recommendation(eph_predictions, avg_fare_by_city, inp)
    /\ op' = "demo"
    /\ pc' = "done"
    /\ UNCHANGED <<eph_predictions, avg_fare_by_city, inp>>

\* a call of core.decision.DecisionEngine.get_recommendation
CoreGetRecommendation ==
    /\ pc = "idle"
    /\ \E surge \in Surges :
        /\ inp' = [inp EXCEPT !.surge = surge]
        /\ res' = core_get_recommendation(eph_predictions, inp, surge)
    /\ op' = "core"
    /\ pc' = "done"
    /\ UNCHANGED <<eph_predictions, avg_fare_by_city>>

Next ==
    \/ GetRecommendation
    \/ CoreGetRecommendation

Spec == Init /\ [][Next]_vars

----------------------------------------------------------------------------
(* The fatigue functions on their own: each copy is called on the same     *)
(* arguments and res collects what each returned.                          *)

InitFatigue ==
    /\ eph_predictions = CHOOSE t \in EphTables : t["B"] = I(11)
    /\ avg_fare_by_city = FareTable
    /\ inp \in FatigueInputs
    /\ pc = "idle"
    /\ op = "none"
    /\ res = [k \in {} |-> Zero]

CallFatigue(name, value) ==
    /\ name \notin DOMAIN res
    /\ res' = [k \in DOMAIN res \cup {name} |-> IF k = name THEN value ELSE res[k]]
    /\ op' = name
    /\ pc' = "done"
    /\ UNCHANGED <<eph_predictions, avg_fare_by_city, inp>>

DemoComputeFatigue ==
    CallFatigue("demo", Demo_compute_fatigue(inp.hours_online, inp.jobs_completed))

CoreComputeFatigue ==
    CallFatigue("core", Core_compute_fatigue(inp.hours_online, inp.jobs_completed))

ComputeFatigue ==
    CallFatigue("fatigue", compute_fatigue(inp.hours_online, inp.jobs_completed))

NextFatigue ==
    \/ DemoComputeFatigue
    \/ CoreComputeFatigue
    \/ ComputeFatigue

SpecFatigue == InitFatigue /\ [][NextFatigue]_vars

----------------------------------------------------------------------------
(* Calls in sequence on one engine: up to MaxCalls calls of the two         *)
(* get_recommendation functions, in any order, each with the same          *)
(* arguments (the core one with any surge row).  op lists the calls made   *)
(* and res what each returned.                                              *)

MaxCalls == 3

Cand(l, d, t) == [loc |-> l, distance_km |-> d, travel_time_mins |-> t]

CallCandidates ==
    {None} \cup
    { [items |-> s] : s \in { <<Cand("B", 0, 0), Cand("A", 0, 0)>>,
                              <<Cand("C", 20, 4), Cand("B", 5, 15)>>,
                              <<Cand("A", 5, 15), Cand("C", 3, 0)>>,
                              <<Cand("B", 1, -60)>> } }

CallInputs ==
    { [current_location |-> "A", city_id |-> c[2], fuel_type |-> c[1],
       hours_online |-> Q(d[1], 10), jobs_completed |-> d[2],
       time_remaining_in_shift_mins |-> tr,
       candidate_locations |-> cl, active_quest |-> c[3], surge |-> None] :
        c \in Contexts, d \in DriverStates, tr \in {15, 90}, cl \in CallCandidates }

InitCalls ==
    /\ eph_predictions \in EphTables
    /\ avg_fare_by_city = FareTable
    /\ inp \in CallInputs
    /\ pc = "idle"
    /\ op = <<>>
    /\ res = <<>>

\* _eph_predictions after a call: predict_eph runs once the two overrides
\* are passed (line 105; core line 60)
EphAfterCall(table, a) ==
    IF \/ IsCriticalFatigue(Demo_compute_fatigue(a.hours_online, a.jobs_completed))
       \/ DrivenTooLong(a.hours_online)
    THEN table
    ELSE EphAfterPredict(table,
             Keys(CandidatesOrCurrent(a.candidate_locations, a.current_location)))

\* one more call of next_locdemo.DecisionEngine.get_recommendation
DemoCall ==
    /\ Len(op) < MaxCalls
    /\ res' = Append(res, get_recommendation(eph_predictions, avg_fare_by_city, inp))
    /\ op' = Append(op, [fn |-> "demo", surge |-> None])
    /\ pc' = "done"
    /\ eph_predictions' = EphAfterCall(eph_predictions, inp)
    /\ UNCHANGED <<avg_fare_by_city, inp>>

\* one more call of core.decision.DecisionEngine.get_recommendation
CoreCall ==
    /\ Len(op) < MaxCalls
    /\ \E surge \in Surges :
        /\ res' = Append(res, core_get_recommendation(eph_predictions, inp, surge))
        /\ op' = Append(op, [fn |-> "core", surge |-> surge])
    /\ pc' = "done"
    /\ eph_predictions' = EphAfterCall(eph_predictions, inp)
    /\ UNCHANGED <<avg_fare_by_city, inp>>

NextCalls ==
    \/ DemoCall
    \/ CoreCall

SpecCalls == InitCalls /\ [][NextCalls]_vars

----------------------------------------------------------------------------
(* A call and a second call to compare it with: after a call of            *)
(* next_locdemo's get_recommendation the caller calls again, either the    *)
(* core copy with the same arguments, or the same engine for another       *)
(* driver state, or the same engine without the quest.  inp and res then   *)
(* hold the second call's arguments and result.                            *)

PairTables == EphTables \cup { [l \in {"A", "B"} |-> IF l = "A" THEN I(10) ELSE Q(12561, 800)] }

QuestAll == [target |-> 10, progress |-> 9, deadline_hours |-> 10, reward |-> 40]

PairContexts ==
    { <<"EV", 1, None>>, <<"EV", 1, Quest1>>, <<"EV", 1, QuestAll>>,
      <<"diesel", 9, QuestAll>>, <<"EV", 9, QuestBad>> }

PairCandidates ==
    {None} \cup
    { [items |-> s] : s \in { <<Cand("A", 0, 0), Cand("B", 0, 0)>>,
                              <<Cand("B", 0, 0)>>,
                              <<Cand("A", 0, 0), Cand("B", 0, 15)>>,
                              <<Cand("C", 3, 0), Cand("A", 0, 0)>>,
                              <<Cand("A", 0, 0), Cand("C", 3, 0)>>,
                              <<Cand("A", 5, 15), Cand("B", 0, 0)>>,
                              <<Cand("B", 32, 15), Cand("C", 32, 15)>>,
                              <<Cand("A", 0, 0), Cand("B", 5, 15), Cand("C", 3, 0)>>,
                              <<Cand("A", 0, 0), Cand("B", 0, -20)>>,
                              <<Cand("B", 1, -60)>> } }

PairTimesRemaining == {-30, 0, 15, 90}

PairInputs ==
    { [current_location |-> "A", city_id |-> c[2], fuel_type |-> c[1],
       hours_online |-> Q(d[1], 10), jobs_completed |-> d[2],
       time_remaining_in_shift_mins |-> tr,
       candidate_locations |-> cl, active_quest |-> c[3], surge |-> None] :
        c \in PairContexts, d \in DriverStates, tr \in PairTimesRemaining,
        cl \in PairCandidates }

InitPair ==
    /\ eph_predictions \in PairTables
    /\ avg_fare_by_city = FareTable
    /\ inp \in PairInputs
    /\ pc = "idle"
    /\ op = "none"
    /\ res = NoResult

\* the core copy called with the arguments of the call just made
AgainCore ==
    /\ pc = "done" /\ op = "demo"
    /\ res' = core_get_recommendation(eph_predictions, inp, None)
    /\ op' = "core"
    /\ pc' = "again"
    /\ UNCHANGED <<eph_predictions, avg_fare_by_city, inp>>

\* the arguments a with another hours_online and jobs_completed
OtherDriverStates(a) ==
    { [a EXCEPT !.hours_online = Q(d[1], 10), !.jobs_completed = d[2]] :
        d \in DriverStates } \ {a}

\* the arguments a with active_quest = None, when a has a quest
WithoutQuest(a) ==
    IF IsNone(a.active_quest) THEN {} ELSE { [a EXCEPT !.active_quest = None] }

\* get_recommendation called again, for another hours_online and
\* jobs_completed or without the quest
AgainDemo ==
    /\ pc = "done" /\ op = "demo"
    /\ \E a \in OtherDriverStates(inp) \cup WithoutQuest(inp) :
        /\ inp' = a
        /\ res' = get_recommendation(eph_predictions, avg_fare_by_city, a)
    /\ op' = "demo"
    /\ pc' = "again"
    /\ UNCHANGED <<eph_predictions, avg_fare_by_city>>

NextPair ==
    \/ GetRecommendation
    \/ AgainCore
    \/ AgainDemo

SpecPair == InitPair /\ [][NextPair]_vars

----------------------------------------------------------------------------
(* The advisor built on some data and one call of recommend_action.        *)

MaxRides == 3          \* at most this many rows in ride_trips

Ride(d, day, hour, mins, hex, city) ==
    [driver_id |-> d, start_time |-> [day |-> day, hour |-> hour],
     duration_mins |-> mins, pickup_hex_id9 |-> hex, city_id |-> city]

Order(d, day, hour, mins, hex, city) ==
    [courier_id |-> d, start_time |-> [day |-> day, hour |-> hour],
     duration_mins |-> mins, pickup_hex_id9 |-> hex, city_id |-> city]

Spot(city, hex, eph) == [city_id |-> city, hexagon_id_9 |-> hex, predicted_eph |-> I(eph)]

RidePool ==
    << Ride("d1", 1, 9, 240, "H0", 1), Ride("d1", 1, 14, 300, "H1", 1),
       Ride("d1", 2, 9, 60, "H0", 1), Ride("d2", 1, 9, 600, "H2", 2) >>

OrderPool ==
    << Order("d1", 1, 10, 30, "H1", 1),
       Order("d1", 1, 11, 30, "H2", 1), Order("d1", 1, 15, 90, "H1", 1),
       Order("d2", 2, 10, 45, "H3", 1) >>

\* the frames holding some rows of a pool, in the pool's order
Frames(pool, max) ==
    { SelectSeq(pool, LAMBDA r : r \in S) :
        S \in {T \in SUBSET {pool[i] : i \in 1..Len(pool)} : Cardinality(T) <= max} }

Heatmaps ==
    { <<>>,
      << Spot(1, "H0", 10), Spot(1, "H1", 20), Spot(1, "H2", 30), Spot(1, "H3", 50) >>,
      << Spot(1, "H0", 10), Spot(1, "H1", 12), Spot(1, "H2", 11) >>,
      << Spot(1, "H0", 12), Spot(1, "H1", 20) >> }

SurgeFrames == { <<>>, <<[city_id |-> 1, hour |-> 12, surge_multiplier |-> I(2)]>> }

AdvisorInputs ==
    { [ride_trips |-> rt, eats_orders |-> eo, heatmap |-> hm, surge_by_hour |-> sg,
       driver_id |-> d, current_time |-> [day |-> day, hour |-> hour]] :
        rt \in Frames(RidePool, MaxRides), eo \in Frames(OrderPool, Len(OrderPool)),
        hm \in Heatmaps, sg \in SurgeFrames,
        d \in {"d1", "d2"}, day \in {1, 2}, hour \in {8, 12, 16} }

InitAdvisor ==
    /\ eph_predictions = CHOOSE t \in EphTables : t["B"] = I(11)
    /\ avg_fare_by_city = FareTable
    /\ inp \in AdvisorInputs
    /\ pc = "idle"
    /\ op = "none"
    /\ res = NoResult

\* a call of UberDriverAdvisor.recommend_action(driver_id, current_time)
RecommendAction ==
    /\ pc = "idle"
    /\ res' = recommend_action(inp)
    /\ op' = "advisor"
    /\ pc' = "done"
    /\ UNCHANGED <<eph_predictions, avg_fare_by_city, inp>>

NextAdvisor == RecommendAction

SpecAdvisor == InitAdvisor /\ [][NextAdvisor]_vars

----------------------------------------------------------------------------
(* Properties.  The driver's state is read from the arguments in integer   *)
(* arithmetic, apart from the operators that model the code.               *)

Min(a, b) == IF a < b THEN a ELSE b

\* hours_online in tenths of an hour
HoursTenths == (inp.hours_online[1] * 10) \div inp.hours_online[2]

\* 1000 * min(1, 0.7 * min(1, hours/5) + 0.3 * min(1, jobs/50))
FatigueMilli ==
    Min(1000, Min(700, 14 * HoursTenths) + Min(300, 6 * inp.jobs_completed))

EngineDone == pc = "done" /\ op \in {"demo", "core"}
Returned == EngineDone /\ ~res.raised
DemoReturned == Returned /\ op = "demo"
Override == FatigueMilli >= 800 \/ HoursTenths > 50

\* the candidates the caller passed, in order (none for None and for {})
Supplied ==
    IF IsNone(inp.candidate_locations) THEN <<>> ELSE inp.candidate_locations.items
Unreachable(c) == c.travel_time_mins >= inp.time_remaining_in_shift_mins

HasRanked == Returned /\ "ranked_options" \in DOMAIN res.details
Ranked == res.details.ranked_options
RankedLocations == {Ranked[i].location : i \in 1..Len(Ranked)}
Best == Ranked[1]
Current ==
    IF inp.current_location \in RankedLocations
    THEN Ranked[CHOOSE i \in 1..Len(Ranked) :
            /\ Ranked[i].location = inp.current_location
            /\ \A j \in 1..Len(Ranked) : Ranked[j].location = inp.current_location => i <= j]
    ELSE Best

\* C1: whenever the fatigue computed from hours_online and jobs_completed is
\* at least 0.8, the call returns a break recommendation, whatever the
\* candidates, the remaining shift time and the quest are.
C1_CriticalFatigueBreaks ==
    (EngineDone /\ FatigueMilli >= 800) =>
        (~res.raised /\ ActionOf(res.narrative) = "break")

\* a critically tired driver within the hour limit, with a quest and two
\* candidates on offer, is told to take a break
C1_Witness ==
    /\ EngineDone /\ op = "demo"
    /\ FatigueMilli >= 800 /\ HoursTenths <= 50
    /\ Len(Supplied) = 2 /\ ~IsNone(inp.active_quest)
    /\ inp.time_remaining_in_shift_mins > 0
    /\ ~res.raised /\ res.narrative.kind = "critical_fatigue"

\* C2: more than 5 hours online always gives a break: the "driven too long"
\* one when fatigue < 0.8, the "critical fatigue" one (rule 1 first) when
\* fatigue >= 0.8.
C2_OverridesInOrder ==
    (EngineDone /\ HoursTenths > 50) =>
        /\ ~res.raised
        /\ ActionOf(res.narrative) = "break"
        /\ FatigueMilli < 800 => res.narrative.kind = "driven_too_long"
        /\ FatigueMilli >= 800 => res.narrative.kind = "critical_fatigue"

\* over 5 hours online with fatigue below 0.8: the "driven too long" break
C2_Witness ==
    /\ EngineDone /\ op = "demo"
    /\ HoursTenths > 50 /\ FatigueMilli < 800
    /\ ~res.raised /\ res.narrative.kind = "driven_too_long"
    /\ res.narrative.hours = inp.hours_online

\* C3: a supplied candidate whose travel time is not below the remaining
\* shift time is in no returned ranked_options and is never the target of
\* a move.
C3_UnreachableNeverRanked ==
    Returned =>
        \A i \in 1..Len(Supplied) :
            Unreachable(Supplied[i]) =>
                /\ HasRanked => Supplied[i].loc \notin RankedLocations
                /\ ~(ActionOf(res.narrative) = "move" /\ res.narrative.to = Supplied[i].loc)

\* a candidate exactly as far as the shift is long was left out while another
\* one was ranked
C3_Witness ==
    /\ DemoReturned /\ HasRanked
    /\ \E i \in 1..Len(Supplied) :
        /\ Supplied[i].travel_time_mins = inp.time_remaining_in_shift_mins
        /\ Supplied[i].loc \notin RankedLocations
    /\ Len(Ranked) = 1

\* C4: with options ranked and the best of them not the current location,
\* the outcome is move exactly when best.final_score / current.final_score
\* >= 1.25 (the ratio counting as infinite for current.final_score <= 0),
\* and stay otherwise; 10 against 13 moves, 10 against 11 stays.
C4_MoveIffRatio ==
    (DemoReturned /\ HasRanked /\ Best.location # inp.current_location) =>
        LET cur == Current.final_score
            best == Best.final_score
            enough == RLe(cur, Zero) \/ RGe(best, RMul(Q(125, 100), cur))
            action == ActionOf(res.narrative)
        IN  /\ enough => action = "move"
            /\ ~enough => action = "stay"
            /\ (cur = I(10) /\ best = I(13)) => action = "move"
            /\ (cur = I(10) /\ best = I(11)) => action = "stay"

\* current location scored 10, the best option 13: move
C4_Witness ==
    /\ DemoReturned /\ HasRanked
    /\ Best.location # inp.current_location
    /\ inp.current_location \in RankedLocations
    /\ Current.final_score = I(10) /\ Best.final_score = I(13)
    /\ res.narrative.kind = "move"

\* C5: a move narrative names the top-ranked option, its travel time (whole
\* minutes) and the increase best.final_score - current.final_score (two
\* decimals); 10 against 13 reports 3.
C5_MoveNamesBest ==
    (DemoReturned /\ res.narrative.kind = "move") =>
        /\ HasRanked
        /\ LET cur == Current
               best == Best
           IN  /\ res.narrative.to = best.location
               /\ res.narrative.mins = RoundTo(I(best.travel_time_mins), 0)
               /\ res.narrative.increase =
                       RoundTo(RSub(best.final_score, cur.final_score), 2)
               /\ (cur.final_score = I(10) /\ best.final_score = I(13))
                       => res.narrative.increase = I(3)

\* a move to B that reports an increase of 3
C5_Witness ==
    /\ DemoReturned /\ res.narrative.kind = "move"
    /\ res.narrative.to = "B" /\ res.narrative.increase = I(3)
    /\ res.narrative.mins = Zero
    /\ Len(Ranked) >= 2

\* C6: with options ranked and the best of them the current location, the
\* outcome is stay at the current location.
C6_BestIsCurrentStays ==
    (DemoReturned /\ HasRanked /\ Best.location = inp.current_location) =>
        /\ res.narrative.kind = "stay_best"
        /\ res.narrative.at = inp.current_location
        /\ ActionOf(res.narrative) = "stay"

\* the current location tops a ranking of two although its score is negative
C6_Witness ==
    /\ DemoReturned /\ HasRanked
    /\ Len(Ranked) = 2 /\ Best.location = inp.current_location
    /\ RLt(Best.final_score, Zero)
    /\ res.narrative.kind = "stay_best"

\* C7: with no override and every supplied candidate (at least one)
\* unreachable, the call returns the "no viable alternative" stay and does
\* not raise.
C7_AllFilteredStays ==
    (/\ EngineDone /\ ~Override
     /\ Len(Supplied) >= 1
     /\ \A i \in 1..Len(Supplied) : Unreachable(Supplied[i])) =>
        /\ ~res.raised
        /\ res.narrative.kind = "no_viable"
        /\ ActionOf(res.narrative) = "stay"
        /\ "ranked_options" \notin DOMAIN res.details

\* two supplied candidates, the current location among them, both filtered
C7_Witness ==
    /\ EngineDone /\ op = "demo" /\ ~Override
    /\ Len(Supplied) = 2
    /\ \A i \in 1..Len(Supplied) : Unreachable(Supplied[i])
    /\ \E i \in 1..Len(Supplied) : Supplied[i].loc = inp.current_location
    /\ ~res.raised /\ res.narrative.kind = "no_viable"

\* C8 as stated: with no candidates supplied and no override, the outcome is
\* the "no viable alternative" stay.
C8_NoCandidatesNoViable ==
    (EngineDone /\ ~Override /\ Supplied = <<>>) =>
        (~res.raised /\ res.narrative.kind = "no_viable")

\* the quest bonus is divided by a zero target for the location loc
ZeroTargetBonus(loc) ==
    /\ op = "demo"
    /\ ~IsNone(inp.active_quest)
    /\ inp.active_quest.target = 0
    /\ QuestApplies([raw_eph |-> DictGet(eph_predictions, loc, I(10))], inp.active_quest,
                    DictGet(avg_fare_by_city, inp.city_id, I(15)))

\* C8 amended: with no candidates supplied (None or {}) and no override, the
\* current location at distance 0 and travel time 0 is the only candidate.
\* With time remaining > 0 it is the one ranked option and the outcome is
\* the stay at the current location (or ZeroDivisionError where the quest
\* bonus divides by a zero target); with time remaining <= 0 it is filtered
\* and the outcome is the "no viable alternative" stay.
C8_NoCandidatesMeansCurrent ==
    (EngineDone /\ ~Override /\ Supplied = <<>>) =>
        IF inp.time_remaining_in_shift_mins <= 0
        THEN ~res.raised /\ res.narrative.kind = "no_viable"
        ELSE IF ZeroTargetBonus(inp.current_location)
        THEN res.raised
        ELSE /\ ~res.raised
             /\ ActionOf(res.narrative) = "stay"
             /\ res.narrative.kind = (IF op = "demo" THEN "stay_best" ELSE "core_stay")
             /\ Len(Ranked) = 1
             /\ Best.location = inp.current_location
             /\ Best.distance_km = 0 /\ Best.travel_time_mins = 0

\* None passed, shift time left: the current location is ranked and kept
C8_Witness ==
    /\ EngineDone /\ op = "demo" /\ ~Override
    /\ IsNone(inp.candidate_locations)
    /\ inp.time_remaining_in_shift_mins > 0
    /\ ~res.raised /\ res.narrative.kind = "stay_best"
    /\ Len(Ranked) = 1

----------------------------------------------------------------------------
(* Properties of the fatigue functions (SpecFatigue).                      *)

FatigueCopy(name, hours_online, jobs_completed) ==
    CASE name = "demo" -> Demo_compute_fatigue(hours_online, jobs_completed)
      [] name = "core" -> Core_compute_fatigue(hours_online, jobs_completed)
      [] OTHER -> compute_fatigue(hours_online, jobs_completed)

\* C9: every copy's fatigue lies in [0, 1] and does not decrease when
\* hours_online grows (jobs fixed) or jobs_completed grows (hours fixed).
C9_FatigueBoundedMonotone ==
    \A k \in DOMAIN res :
        /\ RLe(Zero, res[k]) /\ RLe(res[k], One)
        /\ \A dh \in {1, 7, 25} :
            RLe(res[k], FatigueCopy(k, RAdd(inp.hours_online, Q(dh, 10)), inp.jobs_completed))
        /\ \A dj \in {1, 10, 50} :
            RLe(res[k], FatigueCopy(k, inp.hours_online, inp.jobs_completed + dj))

\* beyond both saturation points every copy returns 1
C9_Witness ==
    /\ pc = "done"
    /\ DOMAIN res = {"demo", "core", "fatigue"}
    /\ HoursTenths > 50 /\ inp.jobs_completed > 50
    /\ \A k \in DOMAIN res : res[k] = One

\* C10: every copy returns min(1, 0.7*min(1, hours/5) + 0.3*min(1, jobs/50)),
\* which is 1 at hours_online = 5 and jobs_completed = 50, and the copies
\* agree on the same arguments.
C10_FatigueFormula ==
    /\ \A k \in DOMAIN res :
        /\ res[k] = Q(FatigueMilli, 1000)
        /\ (HoursTenths = 50 /\ inp.jobs_completed = 50) => res[k] = One
    /\ \A k1, k2 \in DOMAIN res : res[k1] = res[k2]

\* 5 hours and 50 jobs: the three copies all return 1
C10_Witness ==
    /\ pc = "done"
    /\ HoursTenths = 50 /\ inp.jobs_completed = 50
    /\ DOMAIN res = {"demo", "core", "fatigue"}
    /\ res["demo"] = One /\ res["core"] = One /\ res["fatigue"] = One

----------------------------------------------------------------------------
(* Properties of the scores of next_locdemo's get_recommendation (Spec).   *)
(* What a score should be is computed here from the call's arguments and   *)
(* the two tables, in integer arithmetic over one common denominator.      *)

\* the candidates the loop runs over: the supplied ones, or the current
\* location alone when none is supplied
Considered ==
    IF Supplied = <<>>
    THEN <<[loc |-> inp.current_location, distance_km |-> 0, travel_time_mins |-> 0]>>
    ELSE Supplied

\* the cost per km, in cents, the documentation gives for the fuel type
CentsPerKm ==
    CASE inp.fuel_type = "gas" -> 35
      [] inp.fuel_type = "hybrid" -> 25
      [] inp.fuel_type = "EV" -> 15
      [] OTHER -> 30

\* raw * 60/(60 + t) - (d * cents/100 * 60/(t + 1) if t > 0 else 0), for t # -60
ExpectedEffective(raw, d, t) ==
    IF t > 0
    THEN Q(raw[1] * 60 * 100 * (t + 1) - d * CentsPerKm * 60 * (60 + t) * raw[2],
           raw[2] * 100 * (60 + t) * (t + 1))
    ELSE Q(raw[1] * 60, raw[2] * (60 + t))

\* t * 0.1 * (fatigue - 0.6) above the 0.6 threshold, else nothing
ExpectedPenalty(t) ==
    IF FatigueMilli > 600 THEN Q(t * (FatigueMilli - 600), 10000) ELSE Zero

\* the quest asks for more trips within a positive deadline, and raw/fare
\* trips per hour is at least the rate the quest requires
ExpectedBonusDue(raw, fare) ==
    /\ ~IsNone(inp.active_quest)
    /\ inp.active_quest.target - inp.active_quest.progress > 0
    /\ inp.active_quest.deadline_hours > 0
    /\ fare[1] > 0
    /\ raw[1] * fare[2] * inp.active_quest.deadline_hours >=
           (inp.active_quest.target - inp.active_quest.progress) * fare[1] * raw[2]

\* what the quest added to the score of option o
QuestGain(o) ==
    RSub(o.final_score, RSub(o.effective_eph, ExpectedPenalty(o.travel_time_mins)))

\* the call divides by zero: a considered candidate within reach has travel
\* time -60, or the quest bonus of one is divided by a zero target
ZeroDivisor ==
    /\ ~Override
    /\ \E i \in 1..Len(Considered) :
        /\ ~Unreachable(Considered[i])
        /\ \/ 60 + Considered[i].travel_time_mins = 0
           \/ ZeroTargetBonus(Considered[i].loc)

UnknownFuel == inp.fuel_type \notin {"gas", "hybrid", "EV", "unknown"}
UnknownCity == inp.city_id \notin DOMAIN avg_fare_by_city
UnknownLocation(l) == l \notin DOMAIN eph_predictions

\* C11: a lookup that misses never makes the call fail (it raises only on a
\* division by zero) and resolves to its default: predicted EPH 10.0 for a
\* location the demand table does not hold, 0.30 per km for an unrecognized
\* fuel type, average fare 15.0 for a city the fare table does not hold.
C11_MissingLookupsDefault ==
    (EngineDone /\ op = "demo") =>
        /\ ~ZeroDivisor => ~res.raised
        /\ (~res.raised /\ "predicted_eph" \in DOMAIN res.details) =>
            \A l \in DOMAIN res.details.predicted_eph :
                UnknownLocation(l) => res.details.predicted_eph[l] = I(10)
        /\ HasRanked =>
            \A i \in 1..Len(Ranked) :
                LET o == Ranked[i]
                IN  /\ UnknownLocation(o.location) => o.raw_eph = I(10)
                    /\ UnknownFuel =>
                        /\ CentsPerKm = 30
                        /\ o.effective_eph =
                               ExpectedEffective(o.raw_eph, o.distance_km, o.travel_time_mins)
                    /\ (UnknownCity /\ ~IsNone(inp.active_quest)) =>
                        IF ExpectedBonusDue(o.raw_eph, I(15))
                        THEN QuestGain(o) = Q(inp.active_quest.reward, inp.active_quest.target)
                        ELSE QuestGain(o) = Zero

\* unknown location, unknown fuel and unknown city at once: "C" is ranked
\* with raw EPH 10, pays 0.30 per km and earns the quest bonus at fare 15
C11_Witness ==
    /\ DemoReturned /\ HasRanked
    /\ UnknownFuel /\ UnknownCity /\ ~IsNone(inp.active_quest)
    /\ \E i \in 1..Len(Ranked) :
        /\ UnknownLocation(Ranked[i].location)
        /\ Ranked[i].travel_time_mins > 0
        /\ Ranked[i].raw_eph = I(10)
        /\ QuestGain(Ranked[i]) = I(2)
    /\ ActionOf(res.narrative) \in {"move", "stay"}

\* C12: with a quest that still needs trips (target - progress > 0) within a
\* positive deadline, an option's final_score carries reward/target exactly
\* when raw_eph/avg_fare >= trips_needed/deadline_hours; with no quest, no
\* trips needed, no positive deadline or a lower rate the quest adds nothing.
C12_QuestBonus ==
    (DemoReturned /\ HasRanked) =>
        LET fare == DictGet(avg_fare_by_city, inp.city_id, I(15))
        IN  \A i \in 1..Len(Ranked) :
                IF ExpectedBonusDue(Ranked[i].raw_eph, fare)
                THEN QuestGain(Ranked[i]) =
                         Q(inp.active_quest.reward, inp.active_quest.target)
                ELSE QuestGain(Ranked[i]) = Zero

\* one quest, two options: 13/20 trips per hour meets the required 0.6 and
\* earns 20/10, 10/20 does not and earns nothing
C12_Witness ==
    /\ DemoReturned /\ HasRanked /\ Len(Ranked) = 2
    /\ inp.active_quest = Quest1 /\ inp.city_id = 1
    /\ \E i, j \in 1..2 :
        /\ Ranked[i].raw_eph = I(13) /\ QuestGain(Ranked[i]) = I(2)
        /\ Ranked[j].raw_eph = I(10) /\ QuestGain(Ranked[j]) = Zero

\* C15 as stated: whatever the outcome, details carries the fatigue value
\* and the ranked option list.
C15_DetailsAlwaysFull ==
    DemoReturned =>
        /\ "fatigue_level" \in DOMAIN res.details
        /\ "ranked_options" \in DOMAIN res.details

\* C15 amended: details always carries fatigue_level, the fatigue rounded to
\* two decimals.  It carries ranked_options exactly when the outcome is not
\* a break and some considered candidate is within reach (a move or a stay
\* decided on the ranking), with one scored entry for each such candidate;
\* a break and the "no viable alternative" stay carry no ranked_options.
C15_DetailsByOutcome ==
    DemoReturned =>
        LET within == {i \in 1..Len(Considered) : ~Unreachable(Considered[i])}
        IN  /\ "fatigue_level" \in DOMAIN res.details
            /\ res.details.fatigue_level = RoundTo(Q(FatigueMilli, 1000), 2)
            /\ HasRanked <=> (ActionOf(res.narrative) # "break" /\ within # {})
            /\ HasRanked <=>
                   res.narrative.kind \in {"move", "stay_best", "stay_not_significant"}
            /\ (ActionOf(res.narrative) = "break" \/ res.narrative.kind = "no_viable")
                   => ~HasRanked
            /\ HasRanked =>
                /\ Len(Ranked) = Cardinality(within)
                /\ RankedLocations = {Considered[i].loc : i \in within}
                /\ \A i \in 1..Len(Ranked) : "final_score" \in DOMAIN Ranked[i]

\* a break for critical fatigue: two candidates were on offer, details holds
\* the fatigue 0.83 and no ranked option list
C15_Witness ==
    /\ DemoReturned /\ res.narrative.kind = "critical_fatigue"
    /\ Len(Supplied) = 2 /\ inp.time_remaining_in_shift_mins = 90
    /\ res.details.fatigue_level = Q(83, 100)
    /\ DOMAIN res.details =
           {"fatigue_level", "hours_online", "time_remaining_mins", "active_quest"}

\* C16 as stated: whatever numbers the arguments hold (zero and negative
\* ones included), get_recommendation returns a recommendation and does not
\* raise.
C16_NeverRaises ==
    (EngineDone /\ op = "demo") =>
        (~res.raised /\ ActionOf(res.narrative) \in {"break", "move", "stay"})

\* the arguments are well formed: hours and jobs not negative, every
\* supplied candidate with distance and travel time not negative
WellFormed ==
    /\ HoursTenths >= 0
    /\ inp.jobs_completed >= 0
    /\ \A i \in 1..Len(Supplied) :
        Supplied[i].distance_km >= 0 /\ Supplied[i].travel_time_mins >= 0

\* C17 as stated: on well-formed arguments every call ends without an
\* exception in exactly one of break, move and stay, and a move names its
\* target location.
C17_WellFormedTotal ==
    (EngineDone /\ op = "demo" /\ WellFormed) =>
        /\ ~res.raised
        /\ ActionOf(res.narrative) \in {"break", "move", "stay"}
        /\ ActionOf(res.narrative) = "move" =>
               res.narrative.to \in {Supplied[i].loc : i \in 1..Len(Supplied)}

\* C19: every ranked option has effective_eph = raw_eph * 60/(60 + t) - cost,
\* the cost being distance_km * cost_per_km * 60/(t + 1) for travel time
\* t > 0 and nothing otherwise; with t = 0 effective_eph is raw_eph whatever
\* the distance and the fuel type are.
C19_EffectiveEph ==
    (DemoReturned /\ HasRanked) =>
        \A i \in 1..Len(Ranked) :
            LET o == Ranked[i]
            IN  /\ o.raw_eph = res.details.predicted_eph[o.location]
                /\ o.effective_eph =
                       ExpectedEffective(o.raw_eph, o.distance_km, o.travel_time_mins)
                /\ o.travel_time_mins = 0 => o.effective_eph = o.raw_eph

\* "C", 3 km away in no time, keeps its raw EPH 10; an option 4 minutes
\* away pays for its 20 km
C19_Witness ==
    /\ DemoReturned /\ HasRanked /\ Len(Ranked) = 2
    /\ \E i, j \in 1..2 :
        /\ Ranked[i].location = "C" /\ Ranked[i].distance_km = 3
        /\ Ranked[i].travel_time_mins = 0 /\ Ranked[i].effective_eph = I(10)
        /\ Ranked[j].travel_time_mins = 4 /\ Ranked[j].distance_km = 20
        /\ RLt(Ranked[j].effective_eph, Ranked[j].raw_eph)

\* C20: an option the quest adds nothing to has final_score = effective_eph
\* when fatigue <= 0.6 and effective_eph - travel_time_mins * 0.1 *
\* (fatigue - 0.6) when fatigue > 0.6.
C20_FatiguePenalty ==
    (DemoReturned /\ HasRanked) =>
        LET fare == DictGet(avg_fare_by_city, inp.city_id, I(15))
        IN  \A i \in 1..Len(Ranked) :
                LET o == Ranked[i]
                IN  ~ExpectedBonusDue(o.raw_eph, fare) =>
                        /\ FatigueMilli <= 600 => o.final_score = o.effective_eph
                        /\ FatigueMilli > 600 =>
                               o.final_score =
                                   RSub(o.effective_eph,
                                        Q(o.travel_time_mins * (FatigueMilli - 600), 10000))

\* fatigue 0.69 and no quest: the option 15 minutes away loses 15 * 0.1 * 0.09
C20_Witness ==
    /\ DemoReturned /\ HasRanked
    /\ FatigueMilli = 690 /\ IsNone(inp.active_quest)
    /\ \E i \in 1..Len(Ranked) :
        /\ Ranked[i].travel_time_mins = 15
        /\ RSub(Ranked[i].effective_eph, Ranked[i].final_score) = Q(135, 1000)

----------------------------------------------------------------------------
(* Properties of calls in sequence (SpecCalls).                            *)

----------------------------------------------------------------------------
(* Properties of UberDriverAdvisor.recommend_action (SpecAdvisor).         *)

AdvisorDone == pc = "done" /\ op = "advisor"

\* some ride or order of the driver starts on the requested date, not after
\* the requested time
HasRecord ==
    \/ \E i \in 1..Len(inp.ride_trips) :
        /\ inp.ride_trips[i].driver_id = inp.driver_id
        /\ inp.ride_trips[i].start_time.day = inp.current_time.day
        /\ inp.ride_trips[i].start_time.hour <= inp.current_time.hour
    \/ \E i \in 1..Len(inp.eats_orders) :
        /\ inp.eats_orders[i].courier_id = inp.driver_id
        /\ inp.eats_orders[i].start_time.day = inp.current_time.day
        /\ inp.eats_orders[i].start_time.hour <= inp.current_time.hour

\* C18: recommend_action returns the failure, a message naming the driver and
\* the requested time with no action and no recommendation, exactly when the
\* driver has no ride and no order on the requested date up to the requested
\* time; every other result carries a recommendation and an action that is
\* break, move or stay.
C18_ErrorIffNoActivity ==
    AdvisorDone =>
        /\ ("error" \in DOMAIN res) <=> ~HasRecord
        /\ "error" \in DOMAIN res =>
            /\ DOMAIN res = {"error"}
            /\ res.error.kind = "no_activity"
            /\ res.error.driver_id = inp.driver_id
            /\ res.error.time = inp.current_time
        /\ "error" \notin DOMAIN res =>
            /\ "action" \in DOMAIN res /\ "recommendation" \in DOMAIN res
            /\ res.action \in {"break", "move", "stay"}

\* the driver's first ride of the day starts an hour after the requested
\* time: the failure, although the driver has rides that day
C18_Witness ==
    /\ AdvisorDone /\ "error" \in DOMAIN res
    /\ inp.driver_id = "d1" /\ inp.current_time = [day |-> 1, hour |-> 8]
    /\ \E i \in 1..Len(inp.ride_trips) :
        /\ inp.ride_trips[i].driver_id = "d1"
        /\ inp.ride_trips[i].start_time = [day |-> 1, hour |-> 9]
    /\ "action" \notin DOMAIN res

----------------------------------------------------------------------------
(* Properties of the ranking and of the decision, checked under SpecPair.  *)

\* the place of a location among the candidates the loop runs over
PlaceOf(loc) == CHOOSE i \in 1..Len(Considered) : Considered[i].loc = loc

\* the location named as the best one by the narrative of a ranked result
NamedBest ==
    CASE res.narrative.kind = "move" -> res.narrative.to
      [] res.narrative.kind = "stay_not_significant" -> res.narrative.other
      [] OTHER -> res.narrative.at

\* C21: details['ranked_options'] is in descending order of final_score,
\* options of equal final_score stand in the order their candidates were
\* supplied, and the best option, the one the narrative names, is the first
\* element of the list.
C21_RankedDescendingStable ==
    (DemoReturned /\ HasRanked) =>
        /\ \A i, j \in 1..Len(Ranked) :
            i < j =>
                /\ RGe(Ranked[i].final_score, Ranked[j].final_score)
                /\ Ranked[i].final_score = Ranked[j].final_score
                        => PlaceOf(Ranked[i].location) < PlaceOf(Ranked[j].location)
        /\ NamedBest = Ranked[1].location

\* C supplied before A, both scoring 10: C is ranked first and named
C21_Witness ==
    /\ DemoReturned /\ HasRanked
    /\ Len(Ranked) = 2
    /\ Ranked[1].location = "C" /\ Ranked[2].location = "A"
    /\ Ranked[1].final_score = I(10) /\ Ranked[2].final_score = I(10)
    /\ res.narrative = [kind |-> "stay_not_significant", at |-> "A", other |-> "C"]

\* the result reports the ratio the decision was taken on
HasRatio == DemoReturned /\ HasRanked /\ "improvement_ratio" \in DOMAIN res.details

\* the places in the ranking that hold the current location
Here == {i \in 1..Len(Ranked) : Ranked[i].location = inp.current_location}

\* C22: the current option is the ranked option at current_location when
\* that location is within reach among the candidates, and the top-ranked
\* option otherwise; the reported ratio and the reported increase are the
\* ones of that option, so they are 1 (or infinite) and 0 on the fallback.
C22_CurrentOrBest ==
    HasRatio =>
        LET cur == IF Here # {} THEN Ranked[CHOOSE i \in Here : TRUE] ELSE Ranked[1]
            expected ==
                IF RGt(cur.final_score, Zero)
                THEN Fin(RoundTo(RDiv(Ranked[1].final_score, cur.final_score), 2))
                ELSE Inf
        IN  /\ res.details.improvement_ratio = expected
            /\ Here = {} => res.details.improvement_ratio \in {Fin(I(1)), Inf}
            /\ res.narrative.kind = "move" =>
                /\ res.narrative.increase =
                        RoundTo(RSub(Ranked[1].final_score, cur.final_score), 2)
                /\ Here = {} => res.narrative.increase = Zero

\* the current location A is supplied but out of reach, B alone is ranked:
\* the ratio of B against itself
C22_Witness ==
    /\ HasRatio
    /\ \E i \in 1..Len(Supplied) :
        Supplied[i].loc = inp.current_location /\ Unreachable(Supplied[i])
    /\ Here = {}
    /\ Ranked[1].location = "B"
    /\ res.details.improvement_ratio = Fin(I(1))
    /\ res.narrative.kind = "stay_not_significant"

\* C23: for the same arguments with no active quest, no surge table and a
\* fatigue of at most 0.6, the DecisionEngine of core/decision.py returns
\* the outcome (break, move or stay) the DecisionEngine of next_locdemo.py
\* returns, and for a move the same target location.
C23_CoreAgreesWithDemo ==
    [][(/\ pc = "done" /\ op = "demo" /\ op' = "core"
        /\ IsNone(inp.active_quest) /\ IsNone(inp.surge)
        /\ FatigueMilli <= 600
        /\ ~res.raised /\ ~res'.raised)
       => /\ ActionOf(res'.narrative) = ActionOf(res.narrative)
          /\ ActionOf(res.narrative) = "move" => res'.narrative.to = res.narrative.to]_vars

\* what the fatigue took from the score of option o: effective_eph, plus the
\* quest bonus where it is due, minus final_score
PenaltyOf(o) ==
    LET fare == DictGet(avg_fare_by_city, inp.city_id, I(15))
        bonus == IF ExpectedBonusDue(o.raw_eph, fare)
                 THEN Q(inp.active_quest.reward, inp.active_quest.target)
                 ELSE Zero
    IN  RSub(RAdd(o.effective_eph, bonus), o.final_score)

\* a break is returned only on fatigue >= 0.8 or hours_online > 5, and a
\* move or a stay only below both
BreakOnlyOnOverride ==
    /\ ActionOf(res.narrative) = "break" => Override
    /\ ActionOf(res.narrative) \in {"move", "stay"} =>
            FatigueMilli < 800 /\ HoursTenths <= 50

\* C24 as stated: a break is returned only when fatigue >= 0.8 or
\* hours_online > 5, a move or a stay only when fatigue < 0.8 and
\* hours_online <= 5, and the fatigue penalty applied to a scored option is
\* always less than travel_time_mins * 0.02.
C24_PenaltyBelowBound ==
    DemoReturned =>
        /\ BreakOnlyOnOverride
        /\ (HasRanked /\ FatigueMilli > 600) =>
            \A i \in 1..Len(Ranked) :
                RLt(PenaltyOf(Ranked[i]), Q(2 * Ranked[i].travel_time_mins, 100))

\* C24 amended: a break is returned only when fatigue >= 0.8 or
\* hours_online > 5, a move or a stay only when fatigue < 0.8 and
\* hours_online <= 5; the fatigue penalty of a scored option is less than
\* travel_time_mins * 0.02 when the travel time is positive, is 0 when the
\* travel time is 0, and is a gain smaller than |travel_time_mins| * 0.02
\* when the travel time is negative.
C24_PenaltyWithinBound ==
    DemoReturned =>
        /\ BreakOnlyOnOverride
        /\ HasRanked =>
            \A i \in 1..Len(Ranked) :
                LET t == Ranked[i].travel_time_mins
                    penalty == PenaltyOf(Ranked[i])
                IN  /\ t > 0 => RGe(penalty, Zero) /\ RLt(penalty, Q(2 * t, 100))
                    /\ t = 0 => penalty = Zero
                    /\ t < 0 => RLe(penalty, Zero) /\ RGt(penalty, Q(2 * t, 100))

\* fatigue 0.79: the option 15 minutes away loses 0.285 < 0.3, and the
\* option at the current location, 0 minutes away, loses 0, which is the bound
C24_Witness ==
    /\ DemoReturned /\ HasRanked /\ FatigueMilli = 790
    /\ ActionOf(res.narrative) \in {"move", "stay"}
    /\ \E i, j \in 1..Len(Ranked) :
        /\ Ranked[i].travel_time_mins = 15 /\ PenaltyOf(Ranked[i]) = Q(285, 1000)
        /\ Ranked[j].travel_time_mins = 0 /\ PenaltyOf(Ranked[j]) = Zero

\* C25: a move names a location other than the current one, which is a
\* supplied candidate with travel_time_mins < time_remaining_in_shift_mins
\* and whose final_score is the greatest among the ranked options, hence at
\* least the final_score of the current option.
C25_MoveTargetIsBestReachable ==
    (DemoReturned /\ res.narrative.kind = "move") =>
        /\ res.narrative.to # inp.current_location
        /\ \E i \in 1..Len(Supplied) :
            /\ Supplied[i].loc = res.narrative.to
            /\ Supplied[i].travel_time_mins < inp.time_remaining_in_shift_mins
        /\ HasRanked
        /\ \E k \in 1..Len(Ranked) :
            /\ Ranked[k].location = res.narrative.to
            /\ \A j \in 1..Len(Ranked) : RGe(Ranked[k].final_score, Ranked[j].final_score)
            /\ \A j \in Here : RGe(Ranked[k].final_score, Ranked[j].final_score)

\* a move to B, 15 minutes away with 90 minutes left, scored 12.561 against
\* the 10 of the current location A
C25_Witness ==
    /\ DemoReturned /\ res.narrative.kind = "move" /\ res.narrative.to = "B"
    /\ inp.time_remaining_in_shift_mins = 90
    /\ Len(Ranked) = 2 /\ Here = {2}
    /\ Ranked[1].travel_time_mins = 15
    /\ Ranked[1].final_score = Q(12561, 1000) /\ Ranked[2].final_score = I(10)

\* C26: with time_remaining_in_shift_mins <= 0, no candidate travel time
\* below 0 and no safety override, every candidate is filtered out, the
\* current location standing in for missing candidates included: the call
\* returns the "no viable alternative" stay, never a move, and details
\* carries no ranked_options.
C26_NoTimeLeftStays ==
    (/\ EngineDone /\ op = "demo" /\ ~Override
     /\ inp.time_remaining_in_shift_mins <= 0
     /\ \A i \in 1..Len(Considered) : Considered[i].travel_time_mins >= 0) =>
        /\ ~res.raised
        /\ res.narrative.kind = "no_viable"
        /\ ActionOf(res.narrative) = "stay"
        /\ "ranked_options" \notin DOMAIN res.details

\* no candidates supplied and no time left: the current location, 0 minutes
\* away, is filtered out too
C26_Witness ==
    /\ EngineDone /\ op = "demo" /\ ~Override
    /\ inp.time_remaining_in_shift_mins = 0
    /\ Supplied = <<>>
    /\ ~res.raised /\ res.narrative.kind = "no_viable"
    /\ DOMAIN res.details.predicted_eph = {inp.current_location}

\* C27: when some option is ranked but none at the current location, the
\* current option is the best one: the reported ratio is 1 and the outcome
\* the stay naming the best option whenever best.final_score > 0, and the
\* outcome is a move reporting an increase of 0 exactly when
\* best.final_score <= 0.
C27_FallbackToBest ==
    (DemoReturned /\ HasRanked /\ Here = {}) =>
        /\ RGt(Ranked[1].final_score, Zero) =>
            /\ res.details.improvement_ratio = Fin(I(1))
            /\ res.narrative = [kind |-> "stay_not_significant",
                                at |-> inp.current_location,
                                other |-> Ranked[1].location]
        /\ res.narrative.kind = "move" <=> RLe(Ranked[1].final_score, Zero)
        /\ res.narrative.kind = "move" =>
            /\ res.narrative.increase = Zero
            /\ res.narrative.to = Ranked[1].location

\* A is not supplied, B and C cost more to reach than they earn: a move to
\* B reporting an increase of 0
C27_Witness ==
    /\ DemoReturned /\ HasRanked /\ Here = {}
    /\ Len(Ranked) = 2
    /\ RLt(Ranked[1].final_score, Zero)
    /\ res.narrative.kind = "move" /\ res.narrative.to = "B"
    /\ res.narrative.increase = Zero

\* a second call of next_locdemo's engine has just returned in place of the first
SecondDemoCall == pc = "done" /\ op = "demo" /\ pc' = "again" /\ op' = "demo"

\* the call returned a stay
Stays == ~res.raised /\ ActionOf(res.narrative) = "stay"

\* the result carries a ranking with the current location in it
RanksCurrent == ~res.raised /\ "ranked_options" \in DOMAIN res.details /\ Here # {}

\* the final_score of the ranked option at the current location
CurrentScore == Ranked[CHOOSE i \in Here : TRUE].final_score

\* C28: of two calls that differ in hours_online and jobs_completed only,
\* both below the break thresholds, with the current location a candidate 0
\* minutes away and no travel time below 0, the one with the higher (or
\* equal) fatigue stays whenever the other one stays, and the current
\* location has the same final_score in both.
C28_FatigueOnlyDiscourages ==
    [][(/\ SecondDemoCall
        /\ inp'.active_quest = inp.active_quest
        /\ FatigueMilli <= FatigueMilli'
        /\ ~Override /\ ~Override'
        /\ \E i \in 1..Len(Supplied) :
            Supplied[i].loc = inp.current_location /\ Supplied[i].travel_time_mins = 0
        /\ \A i \in 1..Len(Supplied) : Supplied[i].travel_time_mins >= 0)
       => /\ Stays => Stays'
          /\ RanksCurrent => RanksCurrent' /\ CurrentScore' = CurrentScore]_vars

\* the second call, at fatigue 0.79: B, 15 minutes away, is worth 12.561 an
\* hour, 1.2561 times the 10 of A, and scores 12.276 after the penalty: a stay
\* where the call at fatigue 0.31 moves
C28_Witness ==
    /\ pc = "again" /\ op = "demo" /\ ~res.raised
    /\ FatigueMilli = 790 /\ IsNone(inp.active_quest)
    /\ RanksCurrent
    /\ Len(res.details.ranked_options) = 2
    /\ res.details.ranked_options[1].location = "B"
    /\ res.details.ranked_options[1].effective_eph = Q(12561, 1000)
    /\ res.details.ranked_options[1].final_score = Q(12276, 1000)
    /\ res.details.ranked_options[2].final_score = I(10)
    /\ res.narrative.kind = "stay_not_significant"

\* the locations of the ranked options, in ranking order
RankedOrder == [i \in 1..Len(Ranked) |-> Ranked[i].location]

\* the quest of the call earns its bonus on every ranked option
BonusOnAll ==
    /\ ~IsNone(inp.active_quest)
    /\ inp.active_quest.reward >= 0 /\ inp.active_quest.target > 0
    /\ \A i \in 1..Len(Ranked) :
        ExpectedBonusDue(Ranked[i].raw_eph, DictGet(avg_fare_by_city, inp.city_id, I(15)))

\* C29: when the quest bonus (reward >= 0, target > 0) applies to every
\* ranked option, the same call without the quest ranks the options in the
\* same order, with the same best option, and whenever the call without the
\* quest stays the call with the quest stays too.
C29_UniformBonusKeepsRanking ==
    [][(/\ SecondDemoCall
        /\ IsNone(inp'.active_quest)
        /\ inp' = [inp EXCEPT !.active_quest = None]
        /\ DemoReturned /\ HasRanked /\ BonusOnAll)
       => /\ ~res'.raised /\ "ranked_options" \in DOMAIN res'.details
          /\ RankedOrder' = RankedOrder
          /\ Ranked'[1].location = Ranked[1].location
          /\ Stays' => Stays]_vars

\* every option earns the bonus 40/10: B scores 17 against the 14 of A, a
\* stay, where 13 against 10 without the quest is a move
C29_Witness ==
    /\ DemoReturned /\ HasRanked /\ BonusOnAll
    /\ inp.active_quest = QuestAll
    /\ Len(Ranked) = 2
    /\ Ranked[1].location = "B" /\ Ranked[1].final_score = I(17)
    /\ Ranked[1].effective_eph = I(13)
    /\ Ranked[2].location = "A" /\ Ranked[2].final_score = I(14)
    /\ res.narrative.kind = "stay_not_significant"

----------------------------------------------------------------------------
(* The advisor's decision and the driver's fatigue (SpecAdvisor).          *)

\* the call decided between move and stay on a hotspot
AdvisorDecided == AdvisorDone /\ "improvement_ratio" \in DOMAIN res

\* the predicted EPH at the driver's current hexagon (20 when unknown)
CurrentEph ==
    LET rows == SelectSeq(inp.heatmap, LAMBDA r : /\ r.city_id = res.city_id
                                                  /\ r.hexagon_id_9 = res.current_hex)
    IN  IF rows = <<>> THEN I(20) ELSE rows[1].predicted_eph

\* the effective EPH of the best hotspot, before any fatigue scaling
BestHotspotEph ==
    find_hotspots(inp, res.city_id, inp.current_time.hour, res.current_pos)[1].effective_eph

====
